---------------------------- MODULE Spec2Model ----------------------------
(***************************************************************************)
(* Model of the Netlify edge-function reverse proxy                        *)
(* (netlify/edge-functions/proxy.ts).                                      *)
(*                                                                         *)
(* One cold start reads the environment once (module-level constants),     *)
(* then the runtime invokes the default handler once per request.  The     *)
(* handler runs synchronously up to its single `await fetch(...)`; the     *)
(* upstream either fulfils the promise with a response or rejects it, and  *)
(* the handler resumes to build the client response.                       *)
(*                                                                         *)
(* The repository's older edge function (proxy.js) is not the program the  *)
(* specification describes and is not modelled; two of its habits (a       *)
(* fallback target, copying every inbound header) appear below as faulty   *)
(* variants.                                                               *)
(*                                                                         *)
(* JavaScript strings are TLA+ strings.  Concatenation is \o.  The string  *)
(* functions whose result depends on the characters of the string          *)
(* (split, trim, toLowerCase, replace, URL parsing, JSON parsing) are      *)
(* given by their value on every string the model can produce.             *)
(* An optional value (undefined / null versus a string) is <<>> or <<s>>.  *)
(***************************************************************************)
EXTENDS Naturals, Sequences, FiniteSets, TLC

VARIABLES
    env,        \* the process environment read at cold start
    pc,         \* "idle" | "fetching" | "done": position of the handler
    request,    \* the inbound Request (and context.ip) being handled
    outbound,   \* arguments of the fetch() call issued for this request
    fetchCalls, \* number of fetch() calls issued for this request
    upstream,   \* how the fetch() promise settled
    result      \* what the handler produced: a Response or a thrown error

vars == <<env, pc, request, outbound, fetchCalls, upstream, result>>

---------------------------------------------------------------------------
(* Optional values and JavaScript truthiness of string | undefined | null *)

None == <<>>
Some(s) == <<s>>
Truthy(opt) == opt # <<>> /\ opt[1] # ""

---------------------------------------------------------------------------
(* String functions *)

\* String.prototype.split(",")
SplitComma(s) ==
    CASE s = "Authorization, Cookie" -> <<"Authorization", " Cookie">>
      [] s = "host,x-forwarded-for"  -> <<"host", "x-forwarded-for">>
      [] s = "authorization,"        -> <<"authorization", "">>
      [] s = ","                     -> <<"", "">>
      [] OTHER                       -> <<s>>

\* String.prototype.trim()
Trim(s) ==
    CASE s = " Cookie" -> "Cookie"
      [] OTHER         -> s

\* String.prototype.toLowerCase()
ToLowerCase(s) ==
    CASE s = "Authorization"                -> "authorization"
      [] s = "Cookie"                       -> "cookie"
      [] s = "Host"                         -> "host"
      [] s = "Content-Type"                 -> "content-type"
      [] s = "Location"                     -> "location"
      [] s = "X-Foo"                        -> "x-foo"
      [] s = "X-Forwarded-For"              -> "x-forwarded-for"
      [] s = "X-Forwarded-Proto"            -> "x-forwarded-proto"
      [] s = "X-Forwarded-Host"             -> "x-forwarded-host"
      [] s = "Access-Control-Allow-Origin"  -> "access-control-allow-origin"
      [] s = "Access-Control-Allow-Methods" -> "access-control-allow-methods"
      [] s = "Access-Control-Allow-Headers" -> "access-control-allow-headers"
      [] OTHER                              -> s

\* the tails of the lower-case header names that begin with "x-"
XSuffixes ==
    {"custom-trace", "foo", "forwarded-for", "forwarded-proto",
     "forwarded-host", "requested-with", "api-key", "auth-token"}

\* key.toLowerCase().startsWith("x-")
StartsWithXDash(key) == \E t \in XSuffixes : ToLowerCase(key) = "x-" \o t

\* url.protocol.replace(":", "")
ReplaceColon(s) ==
    CASE s = "http:"      -> "http"
      [] s = "https:"     -> "https"
      [] s = "localhost:" -> "localhost"
      [] OTHER            -> s

---------------------------------------------------------------------------
(* URL *)

BadURL ==
    [ok |-> FALSE, protocol |-> "", host |-> "", origin |-> "",
     pathname |-> "", search |-> "", opaque |-> FALSE]

Parsed(protocol, host, origin, pathname, search, opaque) ==
    [ok |-> TRUE, protocol |-> protocol, host |-> host, origin |-> origin,
     pathname |-> pathname, search |-> search, opaque |-> opaque]

\* new URL(s): the parsed URL, or ok = FALSE where the constructor throws
NewURL(s) ==
    CASE s = "http://up.example:8096" ->
            Parsed("http:", "up.example:8096", "http://up.example:8096", "/", "", FALSE)
      [] s = "localhost:3000" ->
            Parsed("localhost:", "", "null", "3000", "", TRUE)
      [] s = "https://proxy.example/api/items?page=2" ->
            Parsed("https:", "proxy.example", "https://proxy.example", "/api/items", "?page=2", FALSE)
      [] s = "http://proxy.example/" ->
            Parsed("http:", "proxy.example", "http://proxy.example", "/", "", FALSE)
      [] s = "http://up.example:8096/foo?bar" ->
            Parsed("http:", "up.example:8096", "http://up.example:8096", "/foo", "?bar", FALSE)
      [] s = "HTTP://UP.EXAMPLE:8096/foo?bar#frag" ->
            Parsed("http:", "up.example:8096", "http://up.example:8096", "/foo", "?bar", FALSE)
      [] s = "https://other.example/x" ->
            Parsed("https:", "other.example", "https://other.example", "/x", "", FALSE)
      [] s = "https://cdn.example/x" ->
            Parsed("https:", "cdn.example", "https://cdn.example", "/x", "", FALSE)
      [] s = "https://proxy.example/foo?bar" ->
            Parsed("https:", "proxy.example", "https://proxy.example", "/foo", "?bar", FALSE)
      [] s = "http://proxy.example/foo?bar" ->
            Parsed("http:", "proxy.example", "http://proxy.example", "/foo", "?bar", FALSE)
      [] OTHER -> BadURL

\* new URL(path, base).toString() for a path that begins with "/":
\* throws when the base cannot be a base URL (opaque path)
NewURLWithBase(path, base) ==
    IF base.opaque
    THEN [ok |-> FALSE, href |-> ""]
    ELSE [ok |-> TRUE, href |-> base.origin \o path]

---------------------------------------------------------------------------
(* Headers *)

EmptyHeaders == [n \in {} |-> ""]

\* a header name is a non-empty HTTP token; get/has/set throw a TypeError
\* on anything else
IsHeaderName(name) == name \notin {"", "bad name"}

HeadersGet(h, name) ==
    IF ToLowerCase(name) \in DOMAIN h THEN Some(h[ToLowerCase(name)]) ELSE None

HeadersHas(h, name) == ToLowerCase(name) \in DOMAIN h

HeadersSet(h, name, value) ==
    [n \in DOMAIN h \cup {ToLowerCase(name)} |->
        IF n = ToLowerCase(name) THEN value ELSE h[n]]


---------------------------------------------------------------------------
(* JSON *)

JsonValue(kind, entries) == [kind |-> kind, entries |-> entries]

\* JSON.parse(text): threw = TRUE where it throws a SyntaxError.  A parsed
\* value carries its kind and its own enumerable string-keyed properties,
\* each property value as the string a Headers object stores for it.
JSONParse(text) ==
    CASE text = "{}" ->
            [threw |-> FALSE, value |-> JsonValue("object", <<>>)]
      [] text = "{\"X-Foo\":\"bar\"}" ->
            [threw |-> FALSE, value |-> JsonValue("object", << <<"X-Foo", "bar">> >>)]
      [] text = "{\"Location\":\"https://cdn.example/x\",\"Access-Control-Allow-Origin\":\"https://app.example\"}" ->
            [threw |-> FALSE,
             value |-> JsonValue("object",
                          << <<"Location", "https://cdn.example/x">>,
                             <<"Access-Control-Allow-Origin", "https://app.example">> >>)]
      [] text = "null" ->
            [threw |-> FALSE, value |-> JsonValue("null", <<>>)]
      [] text = "[\"a\"]" ->
            [threw |-> FALSE, value |-> JsonValue("array", << <<"0", "a">> >>)]
      [] text = "5" ->
            [threw |-> FALSE, value |-> JsonValue("number", <<>>)]
      [] OTHER ->
            [threw |-> TRUE, value |-> JsonValue("undefined", <<>>)]

\* Object.entries(value): throws a TypeError for null and undefined
ObjectEntries(value) ==
    [threw |-> value.kind \in {"null", "undefined"}, entries |-> value.entries]

---------------------------------------------------------------------------
(* Configuration: module-level constants, evaluated once at cold start *)

\* Netlify.env.get(key)
EnvGet(key) == env[key]

\* faulty variant: a fallback target, as in the older edge function
TARGET_URL_WithFallback ==
    IF Truthy(EnvGet("TARGET_URL")) THEN EnvGet("TARGET_URL")
    ELSE Some("http://up.example:8096")

TARGET_URL == EnvGet("TARGET_URL")

ALLOWED_HEADERS ==
    IF Truthy(EnvGet("ALLOWED_HEADERS")) THEN EnvGet("ALLOWED_HEADERS")[1] ELSE ""

CUSTOM_HEADERS ==
    IF Truthy(EnvGet("CUSTOM_HEADERS")) THEN EnvGet("CUSTOM_HEADERS")[1] ELSE "{}"

DEFAULT_REQUEST_HEADERS ==
    <<"authorization", "content-type", "accept", "accept-encoding",
      "accept-language", "origin", "cache-control", "x-requested-with",
      "x-api-key", "x-auth-token">>

DEFAULT_RESPONSE_HEADERS ==
    <<"content-type", "content-length", "content-range", "accept-ranges",
      "cache-control", "etag", "last-modified", "location">>

getAllowedRequestHeaders ==
    IF ALLOWED_HEADERS = "" THEN DEFAULT_REQUEST_HEADERS
    ELSE LET parts == SplitComma(ALLOWED_HEADERS)
         IN  [i \in 1..Len(parts) |-> ToLowerCase(Trim(parts[i]))]

EmptyObject == JsonValue("object", <<>>)

parseCustomHeaders ==
    LET parsed == JSONParse(CUSTOM_HEADERS)
    IN  IF parsed.threw THEN EmptyObject ELSE parsed.value

---------------------------------------------------------------------------
(* Responses *)

NoBody ==
    [type |-> "none", error |-> "", message |-> "", target |-> "",
     details |-> "", stream |-> ""]

\* JSON.stringify({error, message[, target, details]})
JsonBody(error, message, target, details) ==
    [type |-> "json", error |-> error, message |-> message, target |-> target,
     details |-> details, stream |-> ""]

\* a body passed through as a stream
StreamBody(stream) ==
    [type |-> "stream", error |-> "", message |-> "", target |-> "",
     details |-> "", stream |-> stream]

NoResult ==
    [kind |-> "none", status |-> 0, headers |-> EmptyHeaders, body |-> NoBody]

Response(status, headers, body) ==
    [kind |-> "response", status |-> status, headers |-> headers, body |-> body]

\* the handler's promise rejects: the error escapes to the runtime
Thrown == [kind |-> "throw", status |-> 0, headers |-> EmptyHeaders, body |-> NoBody]

JsonContentType == HeadersSet(EmptyHeaders, "Content-Type", "application/json")

ConfigErrorResponse(message) ==
    Response(500, JsonContentType, JsonBody("Configuration Error", message, "", ""))

\* faulty variant: details is always String(error)
ProxyErrorResponse_StringOnly(error) ==
    Response(502, JsonContentType,
             JsonBody("Proxy Error", "Failed to connect to target server",
                      TARGET_URL[1], error.str))

ProxyErrorResponse(error) ==
    Response(502, JsonContentType,
             JsonBody("Proxy Error", "Failed to connect to target server",
                      TARGET_URL[1],
                      IF error.isError THEN error.message ELSE error.str))

---------------------------------------------------------------------------
(* Request header build: lines 113-135 *)

\* for (const header of names) { const value = src.get(header);
\*                               if (value) h.set(header, value); }
\* threw = TRUE when a listed name is not a header name (get throws)
RECURSIVE CopyListed(_, _, _, _)
CopyListed(names, i, src, h) ==
    IF i > Len(names) THEN [threw |-> FALSE, headers |-> h]
    ELSE IF ~IsHeaderName(names[i]) THEN [threw |-> TRUE, headers |-> h]
    ELSE LET value == HeadersGet(src, names[i])
         IN  CopyListed(names, i + 1, src,
                        IF Truthy(value) THEN HeadersSet(h, names[i], value[1]) ELSE h)

\* faulty variant: every inbound header is copied (new Headers(request.headers))
CopyAllowed_CopyAll(src) ==
    [threw |-> FALSE, headers |-> src]

CopyAllowed(src) ==
    CopyListed(getAllowedRequestHeaders, 1, src, EmptyHeaders)

\* faulty variant: the x- headers are not passed through
XPassthrough_Skip(h, src) == h

\* src.forEach((value, key) => { if (key.toLowerCase().startsWith("x-")
\*                                   && !h.has(key)) h.set(key, value); })
XPassthrough(h, src) ==
    [n \in DOMAIN h \cup {k \in DOMAIN src : StartsWithXDash(k) /\ ~HeadersHas(h, k)} |->
        IF n \in DOMAIN h THEN h[n] ELSE src[n]]

\* faulty variant: forwarding headers are set only when absent
SetForwardingHeaders_IfAbsent(h, req, url, targetBaseUrl) ==
    LET setIfAbsent(hh, name, value) ==
            IF HeadersHas(hh, name) THEN hh ELSE HeadersSet(hh, name, value)
    IN  setIfAbsent(
          setIfAbsent(
            setIfAbsent(
              setIfAbsent(h, "X-Forwarded-For", req.ip),
              "X-Forwarded-Proto", ReplaceColon(url.protocol)),
            "X-Forwarded-Host", url.host),
          "Host", targetBaseUrl.host)

SetForwardingHeaders(h, req, url, targetBaseUrl) ==
    HeadersSet(
      HeadersSet(
        HeadersSet(
          HeadersSet(h, "X-Forwarded-For", req.ip),
          "X-Forwarded-Proto", ReplaceColon(url.protocol)),
        "X-Forwarded-Host", url.host),
      "Host", targetBaseUrl.host)

BuildRequestHeaders(req, url, targetBaseUrl) ==
    LET allowed == CopyAllowed(req.headers)
    IN  IF allowed.threw THEN allowed
        ELSE [threw |-> FALSE,
              headers |-> SetForwardingHeaders(
                              XPassthrough(allowed.headers, req.headers),
                              req, url, targetBaseUrl)]

---------------------------------------------------------------------------
(* The handler up to its await: lines 72-148 *)

NoCall == [url |-> "", method |-> "", headers |-> EmptyHeaders, redirect |-> ""]

Returned(r) == [next |-> "done", result |-> r, call |-> NoCall]

AwaitFetch(call) == [next |-> "fetching", result |-> NoResult, call |-> call]

\* faulty variant: the URL constructor's error is not caught
OnInvalidTarget_Uncaught == Returned(Thrown)

OnInvalidTarget ==
    Returned(ConfigErrorResponse("Invalid TARGET_URL: " \o TARGET_URL[1]))

HandlerEntry(req) ==
    IF ~Truthy(TARGET_URL)
    THEN Returned(ConfigErrorResponse("TARGET_URL environment variable is not set"))
    ELSE LET targetBaseUrl == NewURL(TARGET_URL[1]) IN
    IF ~targetBaseUrl.ok
    THEN OnInvalidTarget
    ELSE LET url == NewURL(req.url)
             targetUrl == NewURLWithBase(url.pathname \o url.search, targetBaseUrl) IN
    IF ~targetUrl.ok
    THEN Returned(Thrown)
    ELSE LET built == BuildRequestHeaders(req, url, targetBaseUrl) IN
    IF built.threw
    THEN Returned(Thrown)
    ELSE AwaitFetch([url |-> targetUrl.href, method |-> req.method,
                     headers |-> built.headers, redirect |-> "manual"])

---------------------------------------------------------------------------
(* Response header build: lines 167-199 *)

\* for (const [key, value] of entries) h.set(key, value);
\* threw = TRUE when a key is not a header name (set throws)
RECURSIVE ApplyEntries(_, _, _)
ApplyEntries(entries, i, h) ==
    IF i > Len(entries) THEN [threw |-> FALSE, headers |-> h]
    ELSE IF ~IsHeaderName(entries[i][1]) THEN [threw |-> TRUE, headers |-> h]
    ELSE ApplyEntries(entries, i + 1, HeadersSet(h, entries[i][1], entries[i][2]))

\* for (const [key, value] of Object.entries(customHeaders)) ...
ApplyCustomHeaders(h, customHeaders) ==
    LET own == ObjectEntries(customHeaders)
    IN  IF own.threw THEN [threw |-> TRUE, headers |-> h]
        ELSE ApplyEntries(own.entries, 1, h)

CorsAllowOrigin == "*"
CorsAllowMethods == "GET, POST, PUT, DELETE, OPTIONS, HEAD, PATCH"
CorsAllowHeaders == "Authorization, Content-Type, X-Requested-With, X-API-Key, X-Auth-Token"

\* faulty variant: the CORS headers are set unconditionally
ApplyCorsDefaults_Always(h) ==
    HeadersSet(
      HeadersSet(
        HeadersSet(h, "Access-Control-Allow-Origin", CorsAllowOrigin),
        "Access-Control-Allow-Methods", CorsAllowMethods),
      "Access-Control-Allow-Headers", CorsAllowHeaders)

\* if (!h.has(name)) h.set(name, value), for the three CORS headers
ApplyCorsDefaults(h) ==
    LET setIfAbsent(hh, name, value) ==
            IF HeadersHas(hh, name) THEN hh ELSE HeadersSet(hh, name, value)
    IN  setIfAbsent(
          setIfAbsent(
            setIfAbsent(h, "Access-Control-Allow-Origin", CorsAllowOrigin),
            "Access-Control-Allow-Methods", CorsAllowMethods),
          "Access-Control-Allow-Headers", CorsAllowHeaders)

---------------------------------------------------------------------------
(* Redirect rewrite: lines 203-221 *)

\* faulty variant: the Location of a redirect is never rewritten
RewriteRedirect_Never(h, resp, url, targetBaseUrl) == h

RewriteRedirect(h, resp, url, targetBaseUrl) ==
    IF resp.status >= 300 /\ resp.status < 400
    THEN LET location == HeadersGet(resp.headers, "location") IN
         IF Truthy(location)
         THEN LET locUrl == NewURL(location[1]) IN
              IF locUrl.ok /\ locUrl.origin = targetBaseUrl.origin
              THEN HeadersSet(h, "Location",
                              url.origin \o locUrl.pathname \o locUrl.search)
              ELSE HeadersSet(h, "Location", location[1])
         ELSE h
    ELSE h

---------------------------------------------------------------------------
(* The handler after its await: lines 149-163 and 165-230 *)

\* the handler's continuation on a fulfilled fetch, with the custom
\* response headers as a parameter
RespondWith(req, resp, customHeaders) ==
    LET url == NewURL(req.url)
        targetBaseUrl == NewURL(TARGET_URL[1])
        standard == CopyListed(DEFAULT_RESPONSE_HEADERS, 1, resp.headers, EmptyHeaders)
        passed == XPassthrough(standard.headers, resp.headers)
        custom == ApplyCustomHeaders(passed, customHeaders)
    IN  IF custom.threw THEN Thrown
        ELSE Response(resp.status,
                      RewriteRedirect(ApplyCorsDefaults(custom.headers),
                                      resp, url, targetBaseUrl),
                      StreamBody(resp.body))

OnFulfilled(req, resp) == RespondWith(req, resp, parseCustomHeaders)

OnRejected(error) == ProxyErrorResponse(error)

---------------------------------------------------------------------------
(* Inputs *)

EnvKeys == {"TARGET_URL", "ALLOWED_HEADERS", "CUSTOM_HEADERS"}

TargetUrlSettings ==
    {None, Some(""), Some("not a url"), Some("localhost:3000"),
     Some("http://up.example:8096")}

AllowedHeadersSettings ==
    {None, Some("Authorization, Cookie"), Some("host,x-forwarded-for"),
     Some("authorization,"), Some(",")}

CustomHeadersSettings ==
    {None, Some("{\"X-Foo\":\"bar\"}"),
     Some("{\"Location\":\"https://cdn.example/x\",\"Access-Control-Allow-Origin\":\"https://app.example\"}"),
     Some("{oops"), Some("null"), Some("[\"a\"]"), Some("5")}

Environments ==
    {e \in [EnvKeys -> TargetUrlSettings \cup AllowedHeadersSettings \cup CustomHeadersSettings] :
        /\ e["TARGET_URL"] \in TargetUrlSettings
        /\ e["ALLOWED_HEADERS"] \in AllowedHeadersSettings
        /\ e["CUSTOM_HEADERS"] \in CustomHeadersSettings}

\* all header maps over the given names, each present name with one of its values
HeaderMaps(valuesOf) ==
    UNION {[names -> UNION {valuesOf[n] : n \in names}] : names \in SUBSET DOMAIN valuesOf}

WellValued(h, valuesOf) == \A n \in DOMAIN h : h[n] \in valuesOf[n]

InboundValues ==
    [n \in {"authorization", "cookie", "x-custom-trace", "x-forwarded-for"} |->
        CASE n = "authorization"   -> {"", "Bearer x"}
          [] n = "cookie"          -> {"sid=1"}
          [] n = "x-custom-trace"  -> {"123"}
          [] n = "x-forwarded-for" -> {"6.6.6.6"}]

RequestUrls == {"https://proxy.example/api/items?page=2", "http://proxy.example/"}

Methods == {"GET", "POST"}

\* the runtime always supplies the Host header of the proxy itself
Requests ==
    {[method |-> m, url |-> u, ip |-> "203.0.113.7",
      headers |-> HeadersSet(h, "Host", NewURL(u).host)] :
        m \in Methods, u \in RequestUrls,
        h \in {x \in HeaderMaps(InboundValues) : WellValued(x, InboundValues)}}

UpstreamValues ==
    [n \in {"content-type", "location", "x-foo"} |->
        CASE n = "content-type" -> {"text/html"}
          [] n = "location"     -> {"", "/login?next=1", "http://up.example:8096/foo?bar",
                                    "HTTP://UP.EXAMPLE:8096/foo?bar#frag",
                                    "https://other.example/x"}
          [] n = "x-foo"        -> {"up"}]

Statuses == {200, 302}

UpstreamResponses ==
    {[status |-> st, headers |-> h, body |-> "upstream-body"] :
        st \in Statuses,
        h \in {x \in HeaderMaps(UpstreamValues) : WellValued(x, UpstreamValues)}}

\* what fetch() rejects with: an Error, or a thrown non-Error value
FetchErrors ==
    {[isError |-> TRUE, message |-> "dns error: failed to lookup address",
      str |-> "TypeError: dns error: failed to lookup address"],
     [isError |-> FALSE, message |-> "", str |-> "timeout"]}

NoRequest == [method |-> "", url |-> "", ip |-> "", headers |-> EmptyHeaders]

Pending == [kind |-> "pending", status |-> 0, headers |-> EmptyHeaders,
            body |-> "", error |-> [isError |-> FALSE, message |-> "", str |-> ""]]

Fulfilled(resp) ==
    [kind |-> "fulfilled", status |-> resp.status, headers |-> resp.headers,
     body |-> resp.body, error |-> [isError |-> FALSE, message |-> "", str |-> ""]]

Rejected(error) ==
    [kind |-> "rejected", status |-> 0, headers |-> EmptyHeaders,
     body |-> "", error |-> error]

---------------------------------------------------------------------------
(* The state machine *)

Init ==
    /\ env \in Environments
    /\ pc = "idle"
    /\ request = NoRequest
    /\ outbound = NoCall
    /\ fetchCalls = 0
    /\ upstream = Pending
    /\ result = NoResult

\* the runtime invokes the handler with a request; the handler runs to its
\* first return, throw or await
Invoke(req) ==
    /\ pc = "idle"
    /\ LET step == HandlerEntry(req) IN
        /\ request' = req
        /\ pc' = step.next
        /\ result' = step.result
        /\ outbound' = step.call
        /\ fetchCalls' = IF step.next = "fetching" THEN 1 ELSE 0
    /\ upstream' = Pending
    /\ UNCHANGED env

\* fetch() fulfils with the upstream's response; the handler returns
FetchFulfilled(resp) ==
    /\ pc = "fetching"
    /\ upstream' = Fulfilled(resp)
    /\ result' = OnFulfilled(request, resp)
    /\ pc' = "done"
    /\ UNCHANGED <<env, request, outbound, fetchCalls>>

\* fetch() rejects; the catch block returns the 502 response
FetchRejected(error) ==
    /\ pc = "fetching"
    /\ upstream' = Rejected(error)
    /\ result' = OnRejected(error)
    /\ pc' = "done"
    /\ UNCHANGED <<env, request, outbound, fetchCalls>>

\* the runtime delivers the handler's outcome; everything created for the
\* request is discarded
Deliver ==
    /\ pc = "done"
    /\ pc' = "idle"
    /\ request' = NoRequest
    /\ outbound' = NoCall
    /\ fetchCalls' = 0
    /\ upstream' = Pending
    /\ result' = NoResult
    /\ UNCHANGED env

Next ==
    \/ \E req \in Requests : Invoke(req)
    \/ \E resp \in UpstreamResponses : FetchFulfilled(resp)
    \/ \E error \in FetchErrors : FetchRejected(error)
    \/ Deliver

Spec == Init /\ [][Next]_vars

---------------------------------------------------------------------------
(* Vocabulary of the properties *)

\* the configured target, as the environment holds it
TargetUnset == env["TARGET_URL"] = None

TargetInvalid == env["TARGET_URL"] # None /\ ~NewURL(env["TARGET_URL"][1]).ok

\* the handler has gone past its entry for the current request
Handling == pc # "idle"

\* the upstream call of the current request has been issued
Called == fetchCalls >= 1

IsConfigError(r) ==
    /\ r.kind = "response"
    /\ r.status = 500
    /\ r.body.type = "json"
    /\ r.body.error = "Configuration Error"
    /\ r.headers = [n \in {"content-type"} |-> "application/json"]

IsProxyError(r) ==
    /\ r.kind = "response"
    /\ r.status = 502
    /\ r.body.type = "json"
    /\ r.body.error = "Proxy Error"
    /\ r.headers = [n \in {"content-type"} |-> "application/json"]

ForwardingNames ==
    {"x-forwarded-for", "x-forwarded-proto", "x-forwarded-host", "host"}

AllowList == {getAllowedRequestHeaders[i] : i \in 1..Len(getAllowedRequestHeaders)}

\* the upstream's response, as the settled promise holds it
UpstreamResponse ==
    [status |-> upstream.status, headers |-> upstream.headers, body |-> upstream.body]

\* the handler returned a response built from a fulfilled upstream call
Proxied == pc = "done" /\ upstream.kind = "fulfilled" /\ result.kind = "response"

IsRedirect == upstream.status >= 300 /\ upstream.status < 400

---------------------------------------------------------------------------
(* C1 *)

\* C1: whenever TARGET_URL is unset, a handled request ends, for every method
\* and path, in the 500 JSON "Configuration Error" response, and no upstream
\* call is made.
C1_UnsetTargetIsConfigError ==
    (TargetUnset /\ Handling) =>
        /\ pc = "done"
        /\ IsConfigError(result)
        /\ fetchCalls = 0
        /\ outbound = NoCall

C1_Witness ==
    /\ TargetUnset
    /\ pc = "done"
    /\ request.method = "POST"
    /\ request.url = "https://proxy.example/api/items?page=2"
    /\ result.status = 500

---------------------------------------------------------------------------
(* C2 *)

\* C2: whenever TARGET_URL is set but does not parse as an absolute URL, a
\* handled request ends in the same 500 JSON "Configuration Error" response,
\* and the upstream fetch is never attempted.
C2_InvalidTargetIsConfigError ==
    (TargetInvalid /\ Handling) =>
        /\ pc = "done"
        /\ IsConfigError(result)
        /\ fetchCalls = 0
        /\ outbound = NoCall

C2_Witness ==
    /\ env["TARGET_URL"] = Some("not a url")
    /\ pc = "done"
    /\ result.status = 500
    /\ result.body.message = "Invalid TARGET_URL: not a url"

---------------------------------------------------------------------------
(* C3 *)

\* the message of the failure: an Error's message, otherwise the thrown
\* value as a string
CauseMessage(error) == IF error.isError THEN error.message ELSE error.str

\* C3: when the upstream call fails at the transport level, exactly one
\* upstream attempt was made and the handler returns the 502 JSON response
\* whose error is "Proxy Error" and whose details are the cause message.
C3_TransportFailureIs502 ==
    upstream.kind = "rejected" =>
        /\ pc = "done"
        /\ fetchCalls = 1
        /\ IsProxyError(result)
        /\ result.body.details = CauseMessage(upstream.error)

C3_Witness ==
    /\ pc = "done"
    /\ upstream.kind = "rejected"
    /\ upstream.error.isError
    /\ result.status = 502
    /\ result.body.details = "dns error: failed to lookup address"

---------------------------------------------------------------------------
(* C4 *)

\* C4 as stated: every inbound header whose name starts with x- is on the
\* outbound call with its inbound value.
C4_Original ==
    Called =>
        \A n \in DOMAIN request.headers :
            StartsWithXDash(n) =>
                /\ n \in DOMAIN outbound.headers
                /\ outbound.headers[n] = request.headers[n]

\* C4 (amended): every inbound header whose name starts with x-, other than
\* X-Forwarded-For, X-Forwarded-Proto and X-Forwarded-Host, is on the outbound
\* call with its inbound value, whatever the allow-list.
C4_XHeadersForwarded ==
    Called =>
        \A n \in DOMAIN request.headers :
            (StartsWithXDash(n) /\ n \notin ForwardingNames) =>
                /\ n \in DOMAIN outbound.headers
                /\ outbound.headers[n] = request.headers[n]

C4_Witness ==
    /\ Called
    /\ env["ALLOWED_HEADERS"] = Some("host,x-forwarded-for")
    /\ "x-custom-trace" \in DOMAIN request.headers
    /\ "x-custom-trace" \in DOMAIN outbound.headers
    /\ "x-forwarded-for" \in DOMAIN request.headers

---------------------------------------------------------------------------
(* C5 *)

\* the outbound header set holds only allow-listed names, x- names and Host
OnlyPermittedNames ==
    \A n \in DOMAIN outbound.headers :
        n \in AllowList \/ StartsWithXDash(n) \/ n = "host"

\* C5 as stated: every allow-listed header present and non-empty on the
\* inbound request is on the outbound call unchanged, and the outbound header
\* set holds only allow-listed names, x- names and Host.
C5_Original ==
    Called =>
        /\ \A n \in AllowList :
              Truthy(HeadersGet(request.headers, n)) =>
                  HeadersGet(outbound.headers, n) = HeadersGet(request.headers, n)
        /\ OnlyPermittedNames

\* C5 (amended): every allow-listed header, other than Host and the three
\* X-Forwarded-* names, that is present and non-empty on the inbound request
\* is on the outbound call unchanged, and the outbound header set holds only
\* allow-listed names, x- names and Host.
C5_AllowedForwardedOthersDropped ==
    Called =>
        /\ \A n \in AllowList \ ForwardingNames :
              Truthy(HeadersGet(request.headers, n)) =>
                  HeadersGet(outbound.headers, n) = HeadersGet(request.headers, n)
        /\ OnlyPermittedNames

C5_Witness ==
    /\ Called
    /\ env["ALLOWED_HEADERS"] = None
    /\ HeadersGet(request.headers, "authorization") = Some("Bearer x")
    /\ HeadersGet(outbound.headers, "authorization") = Some("Bearer x")
    /\ "cookie" \in DOMAIN request.headers
    /\ "cookie" \notin DOMAIN outbound.headers

---------------------------------------------------------------------------
(* C6 *)

\* C6: on every outbound call Host is the target base URL's host and not the
\* inbound host, and X-Forwarded-For, X-Forwarded-Proto and X-Forwarded-Host
\* are the client IP, the request URL's scheme and the request URL's host,
\* whatever the inbound headers and the allow-list.
C6_ForwardingHeadersSynthesized ==
    Called =>
        /\ HeadersGet(outbound.headers, "host") = Some(NewURL(env["TARGET_URL"][1]).host)
        /\ HeadersGet(outbound.headers, "host") # HeadersGet(request.headers, "host")
        /\ HeadersGet(outbound.headers, "x-forwarded-for") = Some(request.ip)
        /\ outbound.headers["x-forwarded-proto"] \o ":" = NewURL(request.url).protocol
        /\ HeadersGet(outbound.headers, "x-forwarded-host") = Some(NewURL(request.url).host)

C6_Witness ==
    /\ Called
    /\ env["ALLOWED_HEADERS"] = Some("host,x-forwarded-for")
    /\ HeadersGet(request.headers, "x-forwarded-for") = Some("6.6.6.6")
    /\ HeadersGet(request.headers, "host") = Some("proxy.example")
    /\ HeadersGet(outbound.headers, "host") = Some("up.example:8096")

---------------------------------------------------------------------------
(* C7 *)

\* the three cases of the rewrite, for the upstream Location loc
LocationRewritten(loc) ==
    LET locUrl == NewURL(loc)
        targetOrigin == NewURL(env["TARGET_URL"][1]).origin
        proxyOrigin == NewURL(request.url).origin
        final == HeadersGet(result.headers, "location")
    IN  /\ (locUrl.ok /\ locUrl.origin = targetOrigin) =>
                final = Some(proxyOrigin \o locUrl.pathname \o locUrl.search)
        /\ (locUrl.ok /\ locUrl.origin # targetOrigin) => final = Some(loc)
        /\ ~locUrl.ok => final = Some(loc)
        /\ final # None
        /\ NewURL(final[1]).ok => NewURL(final[1]).origin # targetOrigin

\* C7 as stated: on a 3xx upstream response with a Location header, a
\* Location of the target origin is rewritten to proxyOrigin + path + query,
\* one of another origin and one that does not parse are passed through
\* unchanged, and the final Location never has the target origin.
C7_Original ==
    (Proxied /\ IsRedirect /\ "location" \in DOMAIN upstream.headers) =>
        LocationRewritten(upstream.headers["location"])

\* C7 (amended): the same, for a 3xx upstream response with a non-empty
\* Location header.
C7_RedirectLocationRewritten ==
    (Proxied /\ IsRedirect /\ Truthy(HeadersGet(upstream.headers, "location"))) =>
        LocationRewritten(upstream.headers["location"])

C7_Witness ==
    /\ Proxied
    /\ upstream.status = 302
    /\ HeadersGet(upstream.headers, "location") = Some("HTTP://UP.EXAMPLE:8096/foo?bar#frag")
    /\ HeadersGet(result.headers, "location") = Some("https://proxy.example/foo?bar")

---------------------------------------------------------------------------
(* C8 *)

\* the configured custom response headers, as name/value pairs
CustomEntries == ObjectEntries(parseCustomHeaders).entries

CustomNames == {ToLowerCase(CustomEntries[i][1]) : i \in 1..Len(CustomEntries)}

StandardNames ==
    {DEFAULT_RESPONSE_HEADERS[i] : i \in 1..Len(DEFAULT_RESPONSE_HEADERS)}

CorsDefaults ==
    [n \in {"access-control-allow-origin", "access-control-allow-methods",
            "access-control-allow-headers"} |->
        CASE n = "access-control-allow-origin"  -> CorsAllowOrigin
          [] n = "access-control-allow-methods" -> CorsAllowMethods
          [] n = "access-control-allow-headers" -> CorsAllowHeaders]

\* the Location of a redirect is the redirect rewrite's
RewriterOwns(n) ==
    n = "location" /\ IsRedirect /\ Truthy(HeadersGet(upstream.headers, "location"))

\* the precedence of the response headers; Excepted(n) and Passes(n) say
\* which names the custom value may lose and which upstream headers pass
Precedence(Excepted(_), Passes(_)) ==
    /\ \A i \in 1..Len(CustomEntries) :
          ~Excepted(ToLowerCase(CustomEntries[i][1])) =>
              HeadersGet(result.headers, CustomEntries[i][1]) = Some(CustomEntries[i][2])
    /\ \A n \in DOMAIN upstream.headers :
          ((n \in StandardNames \/ StartsWithXDash(n)) /\ n \notin CustomNames
              /\ ~RewriterOwns(n) /\ Passes(n)) =>
              HeadersGet(result.headers, n) = Some(upstream.headers[n])
    /\ \A n \in DOMAIN CorsDefaults :
          n \notin CustomNames => HeadersGet(result.headers, n) = Some(CorsDefaults[n])
    /\ \A n \in DOMAIN result.headers :
          \/ n \in CustomNames
          \/ n \in DOMAIN CorsDefaults
          \/ n \in DOMAIN upstream.headers /\ (n \in StandardNames \/ StartsWithXDash(n))

\* C8 as stated: in the final response every name in CUSTOM_HEADERS carries
\* the custom value; standard and x- upstream headers are forwarded
\* otherwise; each CORS default is present exactly when the name was not set
\* by passthrough or custom headers.
C8_Original ==
    Proxied =>
        LET never(n) == FALSE
            always(n) == TRUE
        IN  Precedence(never, always)

\* C8 (amended): in the final response every name in CUSTOM_HEADERS carries
\* the custom value, except Location on a 3xx response whose upstream
\* Location is non-empty (it carries the redirect rewrite's value); standard
\* upstream headers with a non-empty value and x- upstream headers are
\* forwarded otherwise; each CORS default is present exactly when the name
\* was not set by passthrough or custom headers.
C8_ResponseHeaderPrecedence ==
    Proxied =>
        LET nonEmpty(n) == n \notin StandardNames \/ upstream.headers[n] # ""
        IN  Precedence(RewriterOwns, nonEmpty)

C8_Witness ==
    /\ Proxied
    /\ env["CUSTOM_HEADERS"] = Some("{\"X-Foo\":\"bar\"}")
    /\ HeadersGet(upstream.headers, "x-foo") = Some("up")
    /\ HeadersGet(upstream.headers, "content-type") = Some("text/html")
    /\ HeadersGet(result.headers, "x-foo") = Some("bar")
    /\ HeadersGet(result.headers, "content-type") = Some("text/html")
    /\ HeadersGet(result.headers, "access-control-allow-origin") = Some("*")

---------------------------------------------------------------------------
(* C9 *)

\* CUSTOM_HEADERS is set and is not a JSON object
CustomNotAnObject ==
    /\ Truthy(env["CUSTOM_HEADERS"])
    /\ \/ JSONParse(env["CUSTOM_HEADERS"][1]).threw
       \/ JSONParse(env["CUSTOM_HEADERS"][1]).value.kind # "object"

\* C9: when CUSTOM_HEADERS is not a JSON object (malformed, null, an array,
\* a scalar), a request whose upstream call is fulfilled ends in the response
\* the handler gives with no custom headers configured.
C9_BadCustomHeadersIgnored ==
    (CustomNotAnObject /\ pc = "done" /\ upstream.kind = "fulfilled") =>
        /\ result.kind = "response"
        /\ result = RespondWith(request, UpstreamResponse, EmptyObject)

---------------------------------------------------------------------------
(* C10 *)

\* C10: every handled request ends in exactly one of the 500 configuration
\* error, the 502 proxy error, or a response with the upstream's status; the
\* upstream is called at most once; nothing escapes the handler as an
\* exception.
C10_OneTerminalResponse ==
    /\ fetchCalls <= 1
    /\ pc = "done" =>
        /\ result.kind = "response"
        /\ \/ IsConfigError(result) /\ fetchCalls = 0
           \/ IsProxyError(result) /\ upstream.kind = "rejected"
           \/ upstream.kind = "fulfilled" /\ result.status = upstream.status

===========================================================================
